---- MODULE Spec2Model ----
(***************************************************************************)
(* A model of disc-party (src/main.py): the tag normalizer                 *)
(* read_basic_tags with its helpers _first, _parse_num_total and           *)
(* _safe_int, the transcoder wrapper flac_to_alac_fp, and the batch loop   *)
(* of main.                                                                *)
(*                                                                         *)
(* Python text is a sequence of one-character strings, so that strip,      *)
(* split, slicing, int() and str() are computed character by character.    *)
(* A Python value is a record: t is the type tag, s the text of a str, n   *)
(* the value of an int, items the elements of a list/tuple.  A raised      *)
(* exception is the value Raised.                                          *)
(***************************************************************************)
EXTENDS Integers, Sequences, FiniteSets, TLC

VARIABLES
    raw, parsed,        \* _parse_num_total: its argument and its result
    audio, out,         \* read_basic_tags: the opened file and the record
    srcRoot, dstRoot, cwd,  \* main: the two roots and the working directory
    tree,               \* the files under the source root before the run
    files,              \* all_audio_file_list
    pc, i,              \* position of main and of its for loop
    fs, dirs,           \* the file system: file path -> content, directories
    log,                \* what each finished iteration did
    err                 \* the iteration that raised, and what raised

vars == <<raw, parsed, audio, out, srcRoot, dstRoot, cwd, tree, files, pc, i,
          fs, dirs, log, err>>

----------------------------------------------------------------------------
(* Bounds of the model *)

MaxStrLen == 4
MaxDateLen == 5
MaxFiles == 2
MaxNum == 12

----------------------------------------------------------------------------
(* Python values *)

PyNone == [t |-> "None"]
Raised == [t |-> "raise"]
Pending == [t |-> "pending"]
PyStr(s) == [t |-> "str", s |-> s]
PyInt(n) == [t |-> "int", n |-> n]
PyList(xs) == [t |-> "list", items |-> xs]
PyTuple(xs) == [t |-> "tuple", items |-> xs]

IsListOrTuple(v) == v.t \in {"list", "tuple"}

\* bool(v)
Truthy(v) ==
    CASE v.t = "str" -> v.s # <<>>
      [] v.t = "int" -> v.n # 0
      [] v.t \in {"list", "tuple"} -> v.items # <<>>
      [] OTHER -> FALSE

\* a or b
PyOr(a, b) == IF Truthy(a) THEN a ELSE b

----------------------------------------------------------------------------
(* Python text *)

Digits == {"0", "1", "2", "3", "4", "5", "6", "7", "8", "9"}
Whitespace == {" "}

DigitVal(c) ==
    CASE c = "0" -> 0 [] c = "1" -> 1 [] c = "2" -> 2 [] c = "3" -> 3
      [] c = "4" -> 4 [] c = "5" -> 5 [] c = "6" -> 6 [] c = "7" -> 7
      [] c = "8" -> 8 [] c = "9" -> 9

DigitChar(d) ==
    CASE d = 0 -> "0" [] d = 1 -> "1" [] d = 2 -> "2" [] d = 3 -> "3"
      [] d = 4 -> "4" [] d = 5 -> "5" [] d = 6 -> "6" [] d = 7 -> "7"
      [] d = 8 -> "8" [] d = 9 -> "9"

SetMin(S) == CHOOSE x \in S : \A y \in S : x <= y
SetMax(S) == CHOOSE x \in S : \A y \in S : x >= y

\* str.strip()
Strip(s) ==
    LET keep == {k \in 1..Len(s) : s[k] \notin Whitespace}
    IN IF keep = {} THEN <<>> ELSE SubSeq(s, SetMin(keep), SetMax(keep))

\* str.isdigit()
IsDigit(s) == s # <<>> /\ \A k \in 1..Len(s) : s[k] \in Digits

RECURSIVE DigitsVal(_)
DigitsVal(ds) ==
    IF ds = <<>> THEN 0
    ELSE DigitsVal(SubSeq(ds, 1, Len(ds) - 1)) * 10 + DigitVal(ds[Len(ds)])

RECURSIVE NatToStr(_)
NatToStr(n) ==
    IF n < 10 THEN <<DigitChar(n)>>
    ELSE NatToStr(n \div 10) \o <<DigitChar(n % 10)>>

\* str(n) of an int
IntToStr(n) == IF n < 0 THEN <<"-">> \o NatToStr(0 - n) ELSE NatToStr(n)

\* int(s) of a str: surrounding whitespace, an optional sign, decimal digits.
\* Anything else raises ValueError.
IntOfDigits(body, sign) ==
    IF IsDigit(body) THEN PyInt(sign * DigitsVal(body)) ELSE Raised

IntOfStripped(t) ==
    IF t # <<>> /\ t[1] \in {"+", "-"}
    THEN IntOfDigits(Tail(t), IF t[1] = "-" THEN 0 - 1 ELSE 1)
    ELSE IntOfDigits(t, 1)

PyIntOfStr(s) == IntOfStripped(Strip(s))

\* int(v)
PyIntOf(v) ==
    CASE v.t = "int" -> v
      [] v.t = "str" -> PyIntOfStr(v.s)
      [] OTHER -> Raised

\* str(v), what an f-string puts in place of {v}
PyStrOf(v) ==
    CASE v.t = "str" -> v.s
      [] v.t = "int" -> IntToStr(v.n)
      [] OTHER -> <<"N", "o", "n", "e">>

\* s[:k]
Prefix(s, k) == SubSeq(s, 1, IF Len(s) < k THEN Len(s) ELSE k)

\* "/" in s, and s.split("/", 1)
HasSlash(s) == \E k \in 1..Len(s) : s[k] = "/"

SplitOnceLast(s) ==
    LET k == SetMax({j \in 1..Len(s) : s[j] = "/"})
    IN <<SubSeq(s, 1, k - 1), SubSeq(s, k + 1, Len(s))>>

SplitOnce(s) ==
    LET k == SetMin({j \in 1..Len(s) : s[j] = "/"})
    IN <<SubSeq(s, 1, k - 1), SubSeq(s, k + 1, Len(s))>>

----------------------------------------------------------------------------
(* read_basic_tags: the helpers *)

\* _first
_first(v) ==
    IF IsListOrTuple(v)
    THEN (IF v.items # <<>> THEN v.items[1] ELSE PyNone)
    ELSE v

\* except Exception: return None
NoneIfRaised(r) == IF r = Raised THEN PyNone ELSE r

\* _safe_int
_safe_int(x) == NoneIfRaised(PyIntOfStr(Strip(PyStrOf(x))))

\* int(x) if x and x.isdigit() else _safe_int(x)   (lines 40-41)
IntOrSafeInt(x) ==
    IF Truthy(x) /\ IsDigit(x.s) THEN PyIntOf(x) ELSE _safe_int(x)

\* One side of a split 'num/total' text (lines 38-41): a.strip() or None,
\* then the conversion
SplitSide(a) == IntOrSafeInt(PyOr(PyStr(Strip(a)), PyNone))

\* The result (num, total); an exception in either part is the result
NumTotal(a, b) ==
    IF a = Raised \/ b = Raised THEN Raised ELSE PyTuple(<<a, b>>)

\* int(x) if x else None   (line 27)
IntIfTruthy(x) == IF Truthy(x) THEN PyIntOf(x) ELSE PyNone

\* Lines 26-27: raw[0][0] raises IndexError on an empty tuple
ParseNative(inner) ==
    IF inner = <<>> THEN Raised
    ELSE NumTotal(IntIfTruthy(inner[1]),
                  IntIfTruthy(IF Len(inner) > 1 THEN inner[2] ELSE PyNone))

\* Lines 35-43
ParseText(s) ==
    IF HasSlash(s)
    THEN NumTotal(SplitSide(SplitOnce(s)[1]), SplitSide(SplitOnce(s)[2]))
    ELSE NumTotal(_safe_int(PyStr(s)), PyNone)

\* Lines 29-43, raw being _first(raw)
ParseFirst(r) ==
    IF r.t = "None" THEN NumTotal(PyNone, PyNone)
    ELSE IF r.t = "int" THEN NumTotal(r, PyNone)
    ELSE ParseText(Strip(PyStrOf(r)))

\* _parse_num_total
_parse_num_total(r0) ==
    IF r0.t = "None" THEN NumTotal(PyNone, PyNone)
    ELSE IF IsListOrTuple(r0) /\ Truthy(r0) /\ IsListOrTuple(r0.items[1])
    THEN ParseNative(r0.items[1].items)
    ELSE ParseFirst(_first(r0))

----------------------------------------------------------------------------
(* read_basic_tags *)

\* What MutagenFile(path) returns: kind "none" is None (the file is not
\* recognized), otherwise the container type.  tagged is FALSE when
\* audio.tags is None.  tags maps the keys the container holds to their
\* values.  "(c)alb" stands for the atom name "\xa9alb".
Kinds == {"FLAC", "MP4", "ID3", "generic"}

NoTags == [k \in {} |-> PyNone]

\* tags.get(k)
Get(tags, k) == IF k \in DOMAIN tags THEN tags[k] ELSE PyNone

Returned(rec) == [st |-> "ok", rec |-> rec]
RaisedOut == [st |-> "raise"]
PendingOut == [st |-> "pending"]

\* audio.tags or {}
TagsOf(a) == IF a.tagged THEN a.tags ELSE NoTags

\* if date_str: out["year"] = _safe_int(str(date_str)[:4])
YearOf(date_str) ==
    IF Truthy(date_str)
    THEN _safe_int(PyStr(Prefix(PyStrOf(date_str), 4)))
    ELSE PyNone

\* id3[k].text[0] if k in id3 else None
Id3Text(id3, k) == IF k \in DOMAIN id3 THEN id3[k].items[1] ELSE PyNone

\* audio is None (line 51)
IsUnsupported(a) == a.kind = "none"

\* The record that is returned once disc and track are parsed as d and t; an
\* exception in either is the outcome
Record(albumartist, album, d, t, artist, title, year) ==
    IF d = Raised \/ t = Raised THEN RaisedOut
    ELSE Returned(
           [albumartist |-> albumartist, album |-> album,
            disc |-> d.items[1], disc_total |-> d.items[2],
            track |-> t.items[1], track_total |-> t.items[2],
            artist |-> artist, title |-> title, year |-> year])

\* get = lambda k: _first(tags.get(k))
GetFirst(tags, k) == _first(Get(tags, k))

\* The FLAC branch (lines 67-82)
FlacRecord(tags) ==
    Record(PyOr(GetFirst(tags, "albumartist"), GetFirst(tags, "ALBUMARTIST")),
           PyOr(GetFirst(tags, "album"), GetFirst(tags, "ALBUM")),
           _parse_num_total(PyOr(GetFirst(tags, "discnumber"),
                                 GetFirst(tags, "DISCNUMBER"))),
           _parse_num_total(PyOr(GetFirst(tags, "tracknumber"),
                                 GetFirst(tags, "TRACKNUMBER"))),
           PyOr(GetFirst(tags, "artist"), GetFirst(tags, "ARTIST")),
           PyOr(GetFirst(tags, "title"), GetFirst(tags, "TITLE")),
           YearOf(PyOr(GetFirst(tags, "date"), GetFirst(tags, "year"))))

ReadFlac(a) == FlacRecord(TagsOf(a))

\* The MP4 branch (lines 85-99)
Mp4Record(tags) ==
    Record(_first(Get(tags, "aART")),
           _first(Get(tags, "(c)alb")),
           _parse_num_total(Get(tags, "disk")),
           _parse_num_total(Get(tags, "trkn")),
           _first(Get(tags, "(c)ART")),
           _first(Get(tags, "(c)nam")),
           YearOf(_first(Get(tags, "(c)day"))))

ReadMp4(a) == Mp4Record(TagsOf(a))

\* albumartist of the ID3 branch (lines 104-108)
Id3AlbumArtist(id3, tpe2) ==
    IF ~Truthy(tpe2) /\ "TXXX:ALBUMARTIST" \in DOMAIN id3
    THEN Id3Text(id3, "TXXX:ALBUMARTIST")
    ELSE tpe2

\* date_str of the ID3 branch (lines 119-124)
Id3Date(id3) ==
    IF "TDRC" \in DOMAIN id3 THEN PyStr(PyStrOf(Id3Text(id3, "TDRC")))
    ELSE IF "TYER" \in DOMAIN id3 THEN PyStr(PyStrOf(Id3Text(id3, "TYER")))
    ELSE PyNone

\* The ID3 branch (lines 102-127)
Id3Record(id3) ==
    Record(Id3AlbumArtist(id3, Id3Text(id3, "TPE2")),
           Id3Text(id3, "TALB"),
           _parse_num_total(Id3Text(id3, "TPOS")),
           _parse_num_total(Id3Text(id3, "TRCK")),
           Id3Text(id3, "TPE1"),
           Id3Text(id3, "TIT2"),
           YearOf(Id3Date(id3)))

ReadId3(a) == Id3Record(a.tags)

\* Any other recognized format (lines 130-143)
GenericRecord(tags) ==
    Record(_first(Get(tags, "albumartist")),
           _first(Get(tags, "album")),
           _parse_num_total(PyOr(Get(tags, "discnumber"), Get(tags, "disc"))),
           _parse_num_total(PyOr(Get(tags, "tracknumber"), Get(tags, "track"))),
           _first(Get(tags, "artist")),
           _first(Get(tags, "title")),
           YearOf(_first(PyOr(Get(tags, "date"), Get(tags, "year")))))

ReadGeneric(a) == GenericRecord(TagsOf(a))

\* read_basic_tags: the branch is chosen by the container type; a file whose
\* tags are not an ID3 instance (an MP3 without tags) falls to the last branch.
read_basic_tags(a) ==
    IF IsUnsupported(a) THEN RaisedOut
    ELSE IF a.kind = "FLAC" THEN ReadFlac(a)
    ELSE IF a.kind = "MP4" THEN ReadMp4(a)
    ELSE IF a.kind = "ID3" /\ a.tagged THEN ReadId3(a)
    ELSE ReadGeneric(a)

----------------------------------------------------------------------------
(* Inputs of the two pure-function specifications *)

\* Every text over alphabet A of at most n characters
Strings(A, n) == UNION {[1..k -> A] : k \in 0..n}

ParseAlphabet == {"0", "1", "2", "3", "7", "a", "b", " ", "/"}
DateAlphabet == {"2", "0", "-", "a"}

\* The parts a native pair may hold
PairParts == {PyNone, PyInt(0), PyInt(2), PyInt(10), PyStr(<<"a">>),
              PyStr(<<"3">>)}

\* [(num, total)], [(num,)], [()]
NativePair(p) == PyList(<<PyTuple(p)>>)

Fields == {"albumartist", "album", "disc", "track", "artist", "title", "year"}

UpperKey(k) ==
    CASE k = "albumartist" -> "ALBUMARTIST" [] k = "album" -> "ALBUM"
      [] k = "discnumber" -> "DISCNUMBER" [] k = "tracknumber" -> "TRACKNUMBER"
      [] k = "artist" -> "ARTIST" [] k = "title" -> "TITLE"
      [] k = "date" -> "DATE" [] k = "year" -> "YEAR"

\* The key that carries field f in a container of the kind; alt picks the
\* second key where the format has two.
LowerKeyFor(kind, f, alt) ==
    CASE kind = "MP4" ->
           (CASE f = "albumartist" -> "aART" [] f = "album" -> "(c)alb"
              [] f = "disc" -> "disk" [] f = "track" -> "trkn"
              [] f = "artist" -> "(c)ART" [] f = "title" -> "(c)nam"
              [] f = "year" -> "(c)day")
      [] kind = "ID3" ->
           (CASE f = "albumartist" -> (IF alt THEN "TXXX:ALBUMARTIST" ELSE "TPE2")
              [] f = "album" -> "TALB" [] f = "disc" -> "TPOS"
              [] f = "track" -> "TRCK" [] f = "artist" -> "TPE1"
              [] f = "title" -> "TIT2"
              [] f = "year" -> (IF alt THEN "TYER" ELSE "TDRC"))
      [] kind = "FLAC" ->
           (CASE f = "disc" -> "discnumber" [] f = "track" -> "tracknumber"
              [] f = "year" -> (IF alt THEN "year" ELSE "date")
              [] OTHER -> f)
      [] OTHER ->
           (CASE f = "disc" -> (IF alt THEN "disc" ELSE "discnumber")
              [] f = "track" -> (IF alt THEN "track" ELSE "tracknumber")
              [] f = "year" -> (IF alt THEN "year" ELSE "date")
              [] OTHER -> f)

KeyFor(kind, f, alt, up) ==
    IF up = f THEN UpperKey(LowerKeyFor(kind, f, alt))
    ELSE LowerKeyFor(kind, f, alt)

Text(s) == PyList(<<PyStr(s)>>)

\* A well-formed value of field f, as the tag reader hands it over
ValueFor(kind, f, variant) ==
    CASE f = "albumartist" -> Text(<<"A", "r">>)
      [] f = "album" -> Text(<<"A", "l">>)
      [] f = "artist" -> Text(<<"P">>)
      [] f = "title" -> Text(<<"S", "o">>)
      [] f = "year" -> (IF variant = 1
                        THEN Text(<<"2", "0", "1", "6", "-", "0", "5", "-", "2", "0">>)
                        ELSE Text(<<"2", "0", "2", "0">>))
      [] f = "disc" ->
           (IF kind = "MP4"
            THEN PyList(<<PyTuple(<<PyInt(1), PyInt(IF variant = 1 THEN 2 ELSE 0)>>)>>)
            ELSE IF variant = 1 THEN Text(<<"1", "/", "2">>) ELSE Text(<<"1">>))
      [] f = "track" ->
           (IF kind = "MP4"
            THEN PyList(<<PyTuple(<<PyInt(2), PyInt(IF variant = 1 THEN 10 ELSE 0)>>)>>)
            ELSE IF variant = 1 THEN Text(<<"0", "2", "/", "1", "0">>)
                 ELSE Text(<<"3">>))

TagsWith(kind, present, alt, up, variant) ==
    [k \in {KeyFor(kind, f, alt, up) : f \in present} |->
        ValueFor(kind, CHOOSE f \in present : KeyFor(kind, f, alt, up) = k,
                 variant)]

Unrecognized == [kind |-> "none", tagged |-> FALSE, tags |-> NoTags]
Untagged(kind) == [kind |-> kind, tagged |-> FALSE, tags |-> NoTags]
Tagged(kind, tags) == [kind |-> kind, tagged |-> TRUE, tags |-> tags]

DateKeys ==
    {<<"FLAC", "date">>, <<"FLAC", "year">>, <<"MP4", "(c)day">>,
     <<"ID3", "TDRC">>, <<"ID3", "TYER">>, <<"generic", "date">>,
     <<"generic", "year">>}

SampleDates ==
    {<<"2", "0", "1", "6", "-", "0", "5", "-", "2", "0">>,
     <<" ", "2", "0", "1", "6">>}

----------------------------------------------------------------------------
(* The state of main outside a run *)

NoErr == [at |-> 0, what |-> "none"]

MainIdle ==
    /\ srcRoot = "" /\ dstRoot = "" /\ cwd = ""
    /\ tree = {} /\ files = <<>> /\ pc = "idle" /\ i = 0
    /\ fs = <<>> /\ dirs = {} /\ log = <<>> /\ err = NoErr

mainVars == <<srcRoot, dstRoot, cwd, tree, files, pc, i, fs, dirs, log, err>>

----------------------------------------------------------------------------
(* _parse_num_total applied to one input *)

InitParse ==
    /\ \/ raw \in {PyNone, PyInt(0), PyInt(7), PyList(<<>>), PyList(<<PyInt(7)>>),
                   PyList(<<PyStr(<<"3", "/", "1", "2">>)>>)}
       \/ \E k \in 0..MaxStrLen : \E s \in [1..k -> ParseAlphabet] :
             raw = PyStr(s)
       \/ \E k \in 0..2 : \E p \in [1..k -> PairParts] : raw = NativePair(p)
    /\ parsed = Pending
    /\ audio = Unrecognized /\ out = PendingOut
    /\ MainIdle

ParseStep ==
    /\ parsed = Pending
    /\ parsed' = _parse_num_total(raw)
    /\ UNCHANGED <<raw, audio, out, mainVars>>

SpecParse == InitParse /\ [][ParseStep]_vars

(* read_basic_tags applied to one file *)

InitTags ==
    /\ \/ audio = Unrecognized
       \/ \E kind \in Kinds : audio = Untagged(kind)
       \* files that lack any subset of the fields, the others well formed
       \/ \E kind \in Kinds, present \in SUBSET Fields, alt \in BOOLEAN,
             variant \in {1, 2} :
             \E up \in (IF kind = "FLAC" THEN present ELSE {}) \cup {"-"} :
                audio = Tagged(kind, TagsWith(kind, present, alt, up, variant))
       \* files that hold a date and nothing else
       \/ \E dk \in DateKeys :
             \/ \E k \in 0..MaxDateLen : \E s \in [1..k -> DateAlphabet] :
                   audio = Tagged(dk[1], [key \in {dk[2]} |-> Text(s)])
             \/ \E s \in SampleDates :
                   audio = Tagged(dk[1], [key \in {dk[2]} |-> Text(s)])
    /\ out = PendingOut
    /\ raw = PyNone /\ parsed = Pending
    /\ MainIdle

ReadStep ==
    /\ out.st = "pending"
    /\ out' = read_basic_tags(audio)
    /\ UNCHANGED <<raw, parsed, audio, mainVars>>

SpecTags == InitTags /\ [][ReadStep]_vars

----------------------------------------------------------------------------
(* Claims about _parse_num_total (SpecParse) *)

IsNativePair(v) ==
    v.t \in {"list", "tuple"} /\ v.items # <<>> /\ v.items[1].t \in {"list", "tuple"}

ParseDone == parsed # Pending

\* C6: composite parsing of a native pair (a sequence whose first element is a
\* pair or a shorter tuple) never raises, whatever its parts are: a
\* non-numeric part, a missing second part, an empty inner tuple.
C6_NativePairNeverRaises ==
    (ParseDone /\ IsNativePair(raw)) => parsed # Raised

\* The integer a text stands for, absent when it is not one: what "trimmed
\* and integer-parsed, absent for a side that does not parse" says.
IntOrAbsent(s) ==
    LET keep == {k \in 1..Len(s) : s[k] # " "}
        core == IF keep = {} THEN <<>>
                ELSE [k \in 1..(SetMax(keep) - SetMin(keep) + 1) |->
                         s[SetMin(keep) + k - 1]]
    IN IF core # <<>> /\ \A k \in 1..Len(core) : core[k] \in Digits
       THEN PyInt(DigitsVal(core))
       ELSE PyNone

FirstSlash(s) == SetMin({k \in 1..Len(s) : s[k] = "/"})

\* C7: a string with '/' is split once at the first '/', each side trimmed and
\* integer-parsed, an unparseable side absent; a string without '/' gives (its
\* integer or absent, absent); None and '' give (absent, absent); nothing
\* raises; "7" gives (7, absent), "a/b" (absent, absent), and (a, b) formatted
\* as "a/b" parses back to (a, b).
C7_StringParse ==
    (ParseDone /\ raw.t \in {"None", "str"}) =>
        /\ parsed # Raised
        /\ raw.t = "None" => parsed = NumTotal(PyNone, PyNone)
        /\ (raw.t = "str" /\ raw.s = <<>>) => parsed = NumTotal(PyNone, PyNone)
        /\ (raw.t = "str" /\ ~HasSlash(raw.s)) =>
              parsed = NumTotal(IntOrAbsent(raw.s), PyNone)
        /\ (raw.t = "str" /\ HasSlash(raw.s)) =>
              LET k == FirstSlash(raw.s)
              IN parsed = NumTotal(IntOrAbsent(SubSeq(raw.s, 1, k - 1)),
                                   IntOrAbsent(SubSeq(raw.s, k + 1, Len(raw.s))))
        /\ raw = PyStr(<<"7">>) => parsed = NumTotal(PyInt(7), PyNone)
        /\ raw = PyStr(<<"a", "/", "b">>) => parsed = NumTotal(PyNone, PyNone)
        /\ \A a, b \in 0..MaxNum :
              raw = PyStr(IntToStr(a) \o <<"/">> \o IntToStr(b)) =>
                 parsed = NumTotal(PyInt(a), PyInt(b))

C7_Witness ==
    /\ raw = PyStr(<<"3", "/", "1", "2">>)
    /\ parsed = NumTotal(PyInt(3), PyInt(12))

----------------------------------------------------------------------------
(* Claims about read_basic_tags (SpecTags) *)

ReadDone == out.st # "pending"

FlacLowerKeys ==
    {"albumartist", "album", "discnumber", "tracknumber", "artist", "title",
     "date", "year"}

\* The keys under which a container of the kind may hold field f
Carriers(kind, f) ==
    {LowerKeyFor(kind, f, alt) : alt \in BOOLEAN}
    \cup (IF kind = "FLAC"
          THEN {UpperKey(LowerKeyFor(kind, f, alt)) : alt \in BOOLEAN}
          ELSE {})

Holds(a, f) == a.tagged /\ Carriers(a.kind, f) \cap DOMAIN a.tags # {}

\* Every value the file holds is a well-formed value of its field
WellFormed(a) ==
    \A k \in DOMAIN a.tags :
        \E f \in Fields, v \in {1, 2} :
            k \in Carriers(a.kind, f) /\ a.tags[k] = ValueFor(a.kind, f, v)

\* C5: the normalizer raises exactly when the file is not recognized; for a
\* recognized file that carries no tags or lacks any subset of the fields, the
\* record has exactly the missing fields absent.
C5_ErrorIffUnrecognized ==
    ReadDone =>
        /\ out.st = "raise" <=> audio.kind = "none"
        /\ (out.st = "ok" /\ WellFormed(audio)) =>
              \A f \in Fields : (out.rec[f] = PyNone) <=> ~Holds(audio, f)

\* The same FLAC tag set with every upper-case key written in lower case
LowerForm(a) ==
    [a EXCEPT !.tags =
        [k \in {l \in FlacLowerKeys : {l, UpperKey(l)} \cap DOMAIN a.tags # {}} |->
            IF k \in DOMAIN a.tags THEN a.tags[k] ELSE a.tags[UpperKey(k)]]]

\* C8: a FLAC tag set that holds one of albumartist, album, artist, title,
\* discnumber, tracknumber, date, year under its all-upper-case key gives the
\* record its lower-case form gives.
C8_UpperSameAsLower ==
    (ReadDone /\ audio.kind = "FLAC") => out = read_basic_tags(LowerForm(audio))

\* C9: in every branch the year is never an error, and a year that is present
\* is a 4-digit integer.
C9_YearFourDigits ==
    (ReadDone /\ audio.kind # "none") =>
        /\ out.st = "ok"
        /\ out.rec.year # PyNone =>
              (out.rec.year.t = "int" /\ out.rec.year.n \in 1000..9999)

----------------------------------------------------------------------------
(* main: paths and the file system *)

\* A file path is [loc, dir, name]: a root, the directory under it (<<>> for
\* the root itself) and the file's name.  A directory is [loc, dir].
FilePath(loc, dir, name) == [loc |-> loc, dir |-> dir, name |-> name]
DirPath(loc, dir) == [loc |-> loc, dir |-> dir]

UpperCase == <<"A", "B", "C", "D", "E", "F", "G", "H", "I", "J", "K", "L", "M",
               "N", "O", "P", "Q", "R", "S", "T", "U", "V", "W", "X", "Y", "Z">>
LowerCase == <<"a", "b", "c", "d", "e", "f", "g", "h", "i", "j", "k", "l", "m",
               "n", "o", "p", "q", "r", "s", "t", "u", "v", "w", "x", "y", "z">>

\* str.lower()
Lower(s) ==
    [k \in 1..Len(s) |->
        IF \E j \in 1..26 : UpperCase[j] = s[k]
        THEN LowerCase[CHOOSE j \in 1..26 : UpperCase[j] = s[k]]
        ELSE s[k]]

\* Path.suffix: the name from its last dot on, '' without one
Suffix(name) ==
    LET dots == {k \in 2..Len(name) : name[k] = "."}
    IN IF dots = {} THEN <<>> ELSE SubSeq(name, SetMax(dots), Len(name))

\* Path.with_suffix(suf)
WithSuffix(name, suf) ==
    SubSeq(name, 1, Len(name) - Len(Suffix(name))) \o suf

\* The texts of the extensions
DotFlac == <<".", "f", "l", "a", "c">>
DotWav == <<".", "w", "a", "v">>
DotAlac == <<".", "a", "l", "a", "c">>
DotM4a == <<".", "m", "4", "a">>
DotMp3 == <<".", "m", "p", "3">>
DotAac == <<".", "a", "a", "c">>

\* exts (line 177)
exts == {DotFlac, DotWav, DotAlac, DotM4a, DotMp3, DotAac}

\* The suffix test of the dispatch (line 191)
IsFlac(name) == Suffix(name) = DotFlac

\* What an f-string puts in place of an absent field: nothing
FormatBlank(v) == IF v = PyNone THEN <<>> ELSE PyStrOf(v)

\* What an f-string puts in place of {v}
Format(v) == PyStrOf(v)

\* audio_dirname (line 186), audio_basename (line 187)
DirName(rec) ==
    Format(rec.albumartist) \o <<" ", "-", " ">> \o Format(rec.album)
    \o <<" ", "(">> \o Format(rec.year) \o <<")">>

BaseName(rec) ==
    Format(rec.disc) \o <<" ", "-", " ">> \o Format(rec.track)
    \o <<" ", "-", " ">> \o Format(rec.title)

\* A file's content: the bytes (data: whose they are, enc: original,
\* transcoded, or cut short) and what MutagenFile makes of them.
Content(data, enc, a) == [data |-> data, enc |-> enc, audio |-> a]

\* The tags of the source, read as record r, as MP4 atoms (map_metadata,
\* lines 161-164)
Mp4Atoms(r) ==
    LET pair(n, tot) == PyList(<<PyTuple(<<n, IF tot = PyNone THEN PyInt(0) ELSE tot>>)>>)
        held == [f \in {"albumartist", "album", "artist", "title", "year",
                        "disc", "track"} |-> r[f] # PyNone]
    IN [k \in {LowerKeyFor("MP4", f, FALSE) :
                 f \in {g \in DOMAIN held : held[g]}} |->
          CASE k = "aART" -> PyList(<<r.albumartist>>)
            [] k = "(c)alb" -> PyList(<<r.album>>)
            [] k = "(c)ART" -> PyList(<<r.artist>>)
            [] k = "(c)nam" -> PyList(<<r.title>>)
            [] k = "(c)day" -> PyList(<<PyStr(PyStrOf(r.year))>>)
            [] k = "disk" -> pair(r.disc, r.disc_total)
            [] k = "trkn" -> pair(r.track, r.track_total)]

\* What ffmpeg writes from a source it could transcode, and what it leaves
\* of an output it opened and could not finish
Transcoded(c, r) == Content(c.data, "alac", Tagged("MP4", Mp4Atoms(r)))
CutShort(c) == Content(c.data, "partial", Unrecognized)

\* f with x mapped to v
Put(f, x, v) == [y \in DOMAIN f \cup {x} |-> IF y = x THEN v ELSE f[y]]

\* os.makedirs(path, exist_ok=True), Path.mkdir(parents=True, exist_ok=True)
MakeDirs(ds, loc, dir) == ds \cup {DirPath(loc, <<>>), DirPath(loc, dir)}

\* A relative path is resolved against the working directory.
\* output_filename (lines 194, 201): os.path.join(audio_dirname, <name>)
OutputPath(dir, name) == FilePath(cwd, dir, name)

----------------------------------------------------------------------------
(* main: the source trees of the model *)

\* The texts of the two scenarios
ArtistText == <<"A", "r", "t", "i", "s", "t">>
AlbumText == <<"A", "l", "b", "u", "m">>
SongText == <<"S", "o", "n", "g">>
SongDir ==
    <<"A", "r", "t", "i", "s", "t", " ", "-", " ", "A", "l", "b", "u", "m", " ",
      "(", "2", "0", "2", "0", ")">>
SongStem == <<"1", " ", "-", " ", "2", " ", "-", " ", "S", "o", "n", "g">>
NoneDir ==
    <<"N", "o", "n", "e", " ", "-", " ", "N", "o", "n", "e", " ", "(", "N", "o",
      "n", "e", ")">>
NoneStem ==
    <<"N", "o", "n", "e", " ", "-", " ", "N", "o", "n", "e", " ", "-", " ", "N",
      "o", "n", "e">>
InDir == <<"i", "n">>

FlacSong ==
    Tagged("FLAC",
           [k \in {"albumartist", "album", "date", "discnumber", "tracknumber",
                   "title"} |->
              CASE k = "albumartist" -> Text(ArtistText)
                [] k = "album" -> Text(AlbumText)
                [] k = "date" -> Text(<<"2", "0", "2", "0">>)
                [] k = "discnumber" -> Text(<<"1">>)
                [] k = "tracknumber" -> Text(<<"0", "2">>)
                [] k = "title" -> Text(SongText)])

Mp4Track ==
    Tagged("MP4",
           [k \in {"trkn", "(c)nam"} |->
              IF k = "trkn" THEN PyList(<<PyTuple(<<PyInt(2), PyInt(10)>>)>>)
              ELSE Text(SongText)])

Id3Title == Tagged("ID3", [k \in {"TIT2"} |-> Text(SongText)])


SrcFile(dir, name, data, a) == [dir |-> dir, name |-> name, data |-> data, audio |-> a]

\* The files a source tree of the model is made of
SourceFiles ==
    {SrcFile(InDir, <<"a", ".", "f", "l", "a", "c">>, "a", FlacSong),
     SrcFile(InDir, <<"b", ".", "F", "L", "A", "C">>, "b", FlacSong),
     SrcFile(InDir, <<"c", ".", "m", "p", "3">>, "c", Untagged("ID3")),
     SrcFile(InDir, <<"d", ".", "m", "p", "3">>, "d", Unrecognized),
     SrcFile(SongDir, SongStem \o DotM4a, "e", Mp4Track),
     SrcFile(InDir, <<"f", ".", "f", "l", "a", "c">>, "f", FlacSong),
     SrcFile(InDir, <<"n", ".", "t", "x", "t">>, "n", Untagged("generic")),
     SrcFile(NoneDir, NoneStem \o DotMp3, "h", Id3Title)}

PathOf(f) == FilePath(srcRoot, f.dir, f.name)

\* The orders in which a set of files may be listed
Orders(S) ==
    {q \in [1..Cardinality(S) -> S] : \A a, b \in 1..Cardinality(S) : a # b => q[a] # q[b]}

----------------------------------------------------------------------------
(* main *)

\* The state when main has read its two paths: a source tree of at most
\* MaxFiles files, a destination root that is the source root or another
\* place, and a working directory that is either root or a third place.
InitMain ==
    /\ raw = PyNone /\ parsed = Pending
    /\ audio = Unrecognized /\ out = PendingOut
    /\ srcRoot = "/src"
    /\ dstRoot \in {"/src", "/dst"}
    /\ cwd \in {srcRoot, dstRoot, "/cwd"}
    /\ tree \in {S \in SUBSET SourceFiles : Cardinality(S) \in 1..MaxFiles}
    /\ files = <<>>
    /\ pc = "start" /\ i = 0
    /\ fs = [p \in {PathOf(f) : f \in tree} |->
               LET f == CHOOSE g \in tree : PathOf(g) = p
               IN Content(f.data, "orig", f.audio)]
    /\ dirs = {DirPath(srcRoot, <<>>), DirPath(cwd, <<>>)}
              \cup {DirPath(srcRoot, f.dir) : f \in tree}
    /\ log = <<>>
    /\ err = NoErr

\* all_audio_file_list (line 180): the files under the source root whose
\* lower-cased suffix is in exts, in the order rglob yields them
Discover ==
    /\ pc = "start"
    /\ files' \in Orders({PathOf(f) : f \in {g \in tree : Lower(Suffix(g.name)) \in exts}})
    /\ pc' = "loop" /\ i' = 1
    /\ UNCHANGED <<raw, parsed, audio, out, srcRoot, dstRoot, cwd, tree, fs,
                   dirs, log, err>>

\* An exception caught per file: the loop goes on with the next file
RaiseAndSkip(what) ==
    /\ pc' = "loop" /\ i' = i + 1
    /\ err' = [at |-> i, what |-> what]

\* An exception in the loop body: nothing catches it, main ends
Raise(what) ==
    /\ pc' = "error" /\ i' = i
    /\ err' = [at |-> i, what |-> what]

\* The loop has a next file
InLoop == pc = "loop" /\ i <= Len(files)

\* audio_file_tags (line 184)
Tags == read_basic_tags(fs[files[i]].audio)

\* The directory that line 189 ensures, and the directories after it
Made(rec) == DirPath(dstRoot, DirName(rec))
DirsMade(rec) == MakeDirs(dirs, dstRoot, DirName(rec))

\* output_filename of the two branches, as the callee resolves it
TranscodeOutput(rec) ==
    OutputPath(DirName(rec), WithSuffix(BaseName(rec) \o DotAlac, DotM4a))
CopyOutput(rec) ==
    OutputPath(DirName(rec), BaseName(rec) \o Suffix(files[i].name))

Entry(rec, op, ok, o) ==
    [pos |-> i, src |-> files[i], op |-> op, ok |-> ok, out |-> o,
     made |-> Made(rec), rec |-> rec]

frame == <<raw, parsed, audio, out, srcRoot, dstRoot, cwd, tree, files>>

\* read_basic_tags raises (line 184)
IterTagsFail ==
    /\ InLoop
    /\ Tags.st = "raise"
    /\ Raise("tags")
    /\ UNCHANGED <<frame, fs, dirs, log>>

\* A .flac file, the transcoder succeeds (lines 184-196)
IterTranscode ==
    /\ InLoop
    /\ IsFlac(files[i].name)
    /\ \E t \in {Tags} :
          /\ t.st = "ok"
          /\ dirs' = MakeDirs(DirsMade(t.rec), cwd, DirName(t.rec))
          /\ fs' = Put(fs, TranscodeOutput(t.rec), Transcoded(fs[files[i]], t.rec))
          /\ log' = Append(log, Entry(t.rec, "transcode", TRUE, TranscodeOutput(t.rec)))
    /\ i' = i + 1
    /\ UNCHANGED <<frame, pc, err>>

\* A .flac file, ffmpeg fails: before it opened the output, or after
IterTranscodeFail ==
    /\ InLoop
    /\ IsFlac(files[i].name)
    /\ \E t \in {Tags} :
          /\ t.st = "ok"
          /\ dirs' = MakeDirs(DirsMade(t.rec), cwd, DirName(t.rec))
          /\ \/ fs' = fs
             \/ fs' = Put(fs, TranscodeOutput(t.rec), CutShort(fs[files[i]]))
          /\ log' = Append(log, Entry(t.rec, "transcode", FALSE, TranscodeOutput(t.rec)))
    /\ Raise("transcode")
    /\ UNCHANGED frame

\* Any other file, shutil.copy2 succeeds (lines 184-189, 198-203)
IterCopy ==
    /\ InLoop
    /\ ~IsFlac(files[i].name)
    /\ \E t \in {Tags} :
          /\ t.st = "ok"
          /\ DirPath(cwd, DirName(t.rec)) \in DirsMade(t.rec)
          /\ CopyOutput(t.rec) # files[i]
          /\ dirs' = DirsMade(t.rec)
          /\ fs' = Put(fs, CopyOutput(t.rec), fs[files[i]])
          /\ log' = Append(log, Entry(t.rec, "copy", TRUE, CopyOutput(t.rec)))
    /\ i' = i + 1
    /\ UNCHANGED <<frame, pc, err>>

\* Any other file, shutil.copy2 raises: the output's directory does not
\* exist (FileNotFoundError), or the output is the source (SameFileError)
IterCopyFail ==
    /\ InLoop
    /\ ~IsFlac(files[i].name)
    /\ \E t \in {Tags} :
          /\ t.st = "ok"
          /\ \/ DirPath(cwd, DirName(t.rec)) \notin DirsMade(t.rec)
             \/ CopyOutput(t.rec) = files[i]
          /\ dirs' = DirsMade(t.rec)
          /\ log' = Append(log, Entry(t.rec, "copy", FALSE, CopyOutput(t.rec)))
    /\ Raise("copy")
    /\ UNCHANGED <<frame, fs>>

\* print('Finished!') (line 205)
Finish ==
    /\ pc = "loop" /\ i > Len(files)
    /\ pc' = "finished"
    /\ UNCHANGED <<frame, i, fs, dirs, log, err>>

Next ==
    \/ Discover
    \/ IterTagsFail
    \/ IterTranscode
    \/ IterTranscodeFail
    \/ IterCopy
    \/ IterCopyFail
    \/ Finish

Spec == InitMain /\ [][Next]_vars

----------------------------------------------------------------------------
(* Claims about main (Spec) *)

Entries == {log[k] : k \in 1..Len(log)}

\* C1: an output file that was written is in <destination root>/<directory
\* name>, the directory line 189 ensures, whatever the roots and the working
\* directory are.
C1_OutputUnderDestination ==
    \A e \in Entries :
        e.ok => (e.out \in DOMAIN fs /\ DirPath(e.out.loc, e.out.dir) = e.made)

\* C3: a discovered file whose suffix is .flac in any letter case goes to the
\* transcoder and its output ends in .m4a; any other file is copied to an
\* output with the source's own suffix.
C3_DispatchBySuffix ==
    \A e \in Entries :
        IF Lower(Suffix(e.src.name)) = DotFlac
        THEN e.op = "transcode" /\ Suffix(e.out.name) = DotM4a
        ELSE e.op = "copy" /\ Suffix(e.out.name) = Suffix(e.src.name)

\* How a field shows in a name: None for an absent one, the decimal digits of
\* a number, the text itself
Shown(v) ==
    IF v = PyNone THEN <<"N", "o", "n", "e">>
    ELSE IF v.t = "int" THEN IntToStr(v.n)
    ELSE v.s

NoLeadingZero(s) == Len(s) > 1 => s[1] # "0"

\* The file of the source tree at a path
TreeFile(p) == CHOOSE f \in tree : PathOf(f) = p

\* C4: the directory is "<albumartist> - <album> (<year>)" and the stem
\* "<disc> - <track> - <title>" of the normalized record, None for an absent
\* field and numbers without leading zeros; the tagged FLAC file of the first
\* scenario gives "Artist - Album (2020)" and "1 - 2 - Song", a file without
\* tags "None - None (None)" and "None - None - None" plus its own suffix.
C4_DestinationNaming ==
    \A e \in Entries :
        /\ e.out.dir = Shown(e.rec.albumartist) \o <<" ", "-", " ">>
                       \o Shown(e.rec.album) \o <<" ", "(">>
                       \o Shown(e.rec.year) \o <<")">>
        /\ e.out.name = Shown(e.rec.disc) \o <<" ", "-", " ">>
                        \o Shown(e.rec.track) \o <<" ", "-", " ">>
                        \o Shown(e.rec.title) \o Suffix(e.out.name)
        /\ \A f \in {"disc", "track", "year"} :
              e.rec[f] # PyNone => NoLeadingZero(Shown(e.rec[f]))
        /\ (e.src.dir = InDir /\ TreeFile(e.src).audio = FlacSong) =>
              /\ e.out.dir = SongDir
              /\ e.out.name = SongStem \o Suffix(e.out.name)
        /\ (e.src.dir = InDir /\ TreeFile(e.src).audio = Untagged("ID3")) =>
              /\ e.out.dir = NoneDir
              /\ e.out.name = NoneStem \o Suffix(e.src.name)

C4_Witness ==
    \E d, e \in Entries :
        /\ d.ok /\ d.op = "transcode"
        /\ d.out = FilePath(cwd, SongDir, SongStem \o DotM4a)
        /\ e.ok /\ e.op = "copy"
        /\ e.out = FilePath(cwd, NoneDir, NoneStem \o DotMp3)

\* The state of a run that an error ended at position err.at: main is over
\* without the banner, the loop is where it was, nothing was done for a later
\* position.
Halted ==
    err.at # 0 =>
        /\ pc = "error"
        /\ i = err.at
        /\ \A e \in Entries : e.pos <= err.at

\* The step on which an iteration raises
Failing == err.at = 0 /\ err'.at # 0

\* The output the failing iteration was writing, when it got that far
FailingOutput == IF Len(log') > Len(log) THEN {log'[Len(log')].out} ELSE {}

\* C2 as stated: when tag normalization or the transcoder fails at position
\* i, no later file is read, copied or transcoded, the banner is never
\* reported, and every output written for an earlier position is still there
\* and unchanged.
C2_HaltOnFirstError ==
    [][/\ Halted /\ Halted'
       /\ err.at # 0 => (fs' = fs /\ log' = log /\ pc' = pc)
       /\ Failing =>
             \A e \in Entries :
                 e.ok => (e.out \in DOMAIN fs' /\ fs'[e.out] = fs[e.out])]_vars

\* C2 as amended: the same, except that an earlier output at the very path
\* the failing transcoder run was writing is still there but may be changed.
C2_HaltKeepsOtherOutputs ==
    [][/\ Halted /\ Halted'
       /\ err.at # 0 => (fs' = fs /\ log' = log /\ pc' = pc)
       /\ Failing =>
             \A e \in Entries :
                 e.ok => /\ e.out \in DOMAIN fs'
                         /\ e.out \notin FailingOutput => fs'[e.out] = fs[e.out]]_vars

C2_Witness ==
    /\ pc = "error" /\ err.at = 2 /\ err.what = "transcode"
    /\ \E e \in Entries : e.pos = 1 /\ e.ok /\ e.out \in DOMAIN fs

\* C10: every file that was under the source root before the run is still
\* there with the content it had, whether the run completed or an error
\* halted it.
C10_SourceUntouched ==
    \A f \in tree :
        /\ PathOf(f) \in DOMAIN fs
        /\ fs[PathOf(f)] = Content(f.data, "orig", f.audio)

====
